---- MODULE Spec2Model ----
(***************************************************************************)
(* A model of the parser-combinator library mkantor/parsing.               *)
(*                                                                         *)
(* A parser is a function from an input string to an Either of an          *)
(* InvalidInputError and a Success.  Parsers are closures in the source;   *)
(* here a parser value is a record naming the constructor or combinator    *)
(* that built it together with its captured arguments, and applying a      *)
(* parser to an input is the operator Run.  Strings are sequences of       *)
(* UTF-16 code units, each written as a one-character string.              *)
(*                                                                         *)
(* The only mutable state a parser can reach is the lastIndex field of the *)
(* RegExp object captured by regularExpression; it is the variable         *)
(* lastIndex.  Every operator that applies a parser therefore takes the    *)
(* current lastIndex map and returns the new one with its result.          *)
(***************************************************************************)
EXTENDS Integers, Sequences, FiniteSets, TLC

\* Longest input string.
MaxLen == 3
\* Longest parser list handed to oneOf and sequence.
MaxParsers == 3
\* Deepest call stack the engine allows before it throws a RangeError.
MaxDepth == 6

Chars == {"a", "b"}
Inputs == UNION {[1..n -> Chars] : n \in 0..MaxLen}

---------------------------------------------------------------------------
(* Strings *)

startsWith(input, text) ==
  /\ Len(text) <= Len(input)
  /\ SubSeq(input, 1, Len(text)) = text

slice(input, start) == SubSeq(input, start + 1, Len(input))

RECURSIVE Text(_)
Text(s) == IF s = <<>> THEN "" ELSE Head(s) \o Text(Tail(s))

---------------------------------------------------------------------------
(* Output values: strings, undefined and arrays *)

Str(s) == [t |-> "string", v |-> s]
undefined == [t |-> "undefined", v |-> <<>>]
Arr(xs) == [t |-> "array", v |-> xs]

---------------------------------------------------------------------------
(* @matt.kantor/either *)

makeLeft(value) == [tag |-> "left", value |-> value]
makeRight(value) == [tag |-> "right", value |-> value]
isLeft(e) == e.tag = "left"

\* const x = value; the body then reads x without computing it again.
With(value, Body(_)) == CHOOSE y \in {Body(x) : x \in {value}} : TRUE

\* What applying a parser yields: its Either, the RegExp state it leaves
\* behind, and the applications of its argument parsers it made, in order.
Ret(result, li, calls) == [result |-> result, lastIndex |-> li, calls |-> calls]
Call(parser, input, result) == [parser |-> parser, input |-> input, result |-> result]

---------------------------------------------------------------------------
(* RegExp: source is a sequence of tokens, a character, "^", "|" or "?"    *)
(* (postfix, on a character); flags is "", "g" or "y".                     *)

RegExp(source, flags) == [source |-> source, flags |-> flags]
global(re) == re.flags = "g"
sticky(re) == re.flags = "y"
NULL == [index |-> -1, m0 |-> <<>>]

RECURSIVE Alternatives(_)
Alternatives(source) ==
  IF \E i \in 1..Len(source) : source[i] = "|"
  THEN LET i == CHOOSE i \in 1..Len(source) :
                  source[i] = "|" /\ \A j \in 1..(i - 1) : source[j] # "|"
       IN <<SubSeq(source, 1, i - 1)>>
            \o Alternatives(SubSeq(source, i + 1, Len(source)))
  ELSE <<source>>

\* The end index of a match of terms[k..] at pos, or -1.
RECURSIVE MatchTerms(_, _, _, _)
MatchTerms(terms, k, input, pos) ==
  IF k > Len(terms) THEN pos
  ELSE IF terms[k] = "^"
  THEN (IF pos = 0 THEN MatchTerms(terms, k + 1, input, pos) ELSE -1)
  ELSE LET optional == k < Len(terms) /\ terms[k + 1] = "?"
           next == IF optional THEN k + 2 ELSE k + 1
           taken == IF pos < Len(input) /\ input[pos + 1] = terms[k]
                    THEN MatchTerms(terms, next, input, pos + 1)
                    ELSE -1
       IN IF taken # -1 THEN taken
          ELSE IF optional THEN MatchTerms(terms, next, input, pos)
          ELSE -1

RECURSIVE MatchAlternatives(_, _, _, _)
MatchAlternatives(alts, k, input, pos) ==
  IF k > Len(alts) THEN -1
  ELSE LET e == MatchTerms(alts[k], 1, input, pos)
       IN IF e # -1 THEN e ELSE MatchAlternatives(alts, k + 1, input, pos)

\* The search of RegExpBuiltinExec from index i on.
RECURSIVE ExecFrom(_, _, _)
ExecFrom(re, input, i) ==
  IF i > Len(input) THEN [index |-> -1, end |-> -1]
  ELSE LET e == MatchAlternatives(Alternatives(re.source), 1, input, i)
       IN IF e # -1 THEN [index |-> i, end |-> e]
          ELSE IF sticky(re) THEN [index |-> -1, end |-> -1]
          ELSE ExecFrom(re, input, i + 1)

\* re.exec(input): the match (or NULL) and the lastIndex map it leaves.
exec(re, input, li) ==
  LET stateful == global(re) \/ sticky(re)
      r == ExecFrom(re, input, IF stateful THEN li[re] ELSE 0)
  IN IF r.index = -1
     THEN [match |-> NULL,
           lastIndex |-> IF stateful THEN [li EXCEPT ![re] = 0] ELSE li]
     ELSE [match |-> [index |-> r.index, m0 |-> SubSeq(input, r.index + 1, r.end)],
           lastIndex |-> IF stateful THEN [li EXCEPT ![re] = r.end] ELSE li]

---------------------------------------------------------------------------
(* Parser values: what each constructor and combinator captures *)

patternAnchoredToStartOfString(pattern) ==
  IF startsWith(pattern.source, <<"^">>)
  THEN pattern
  ELSE RegExp(<<"^">> \o pattern.source, pattern.flags)

AnySingleCharacter == [kind |-> "anySingleCharacter"]
Literal(text) == [kind |-> "literal", text |-> text]
Nothing == [kind |-> "nothing"]
RegularExpression(pattern) ==
  [kind |-> "regularExpression",
   patternAnchoredToStartOfString |-> patternAnchoredToStartOfString(pattern)]
As(parser, newOutput) == [kind |-> "as", parser |-> parser, newOutput |-> newOutput]
ButNot(parser, not, notName) ==
  [kind |-> "butNot", parser |-> parser, not |-> not, notName |-> notName]
FlatMap(parser, f) == [kind |-> "flatMap", parser |-> parser, f |-> f]
Lazy(thunk) == [kind |-> "lazy", thunk |-> thunk]
LookaheadNot(parser, notFollowedBy, followedByName) ==
  [kind |-> "lookaheadNot", parser |-> parser, notFollowedBy |-> notFollowedBy,
   followedByName |-> followedByName]
Map(parser, f) == [kind |-> "map", parser |-> parser, f |-> f]
OneOf(parsers) == [kind |-> "oneOf", parsers |-> parsers]
Sequence(parsers) == [kind |-> "sequence", parsers |-> parsers]
TransformOutput(parser, f) == [kind |-> "transformOutput", parser |-> parser, f |-> f]
ZeroOrMore(parser) == [kind |-> "zeroOrMore", parser |-> parser]
OneOrMore(parser) == Map(Sequence(<<parser, ZeroOrMore(parser)>>), "headTail")

---------------------------------------------------------------------------
(* Caller-supplied functions, by name *)

toUpperCase(c) == CASE c = "a" -> "A" [] c = "b" -> "B" [] OTHER -> c

\* The f of map.
MapFunction(f, output) ==
  CASE f = "headTail" -> Arr(<<output.v[1]>> \o output.v[2].v)
    [] f = "toUpperCase" -> Str([i \in 1..Len(output.v) |-> toUpperCase(output.v[i])])

\* The f of flatMap: character => literal(character).
FlatMapFunction(f, output) ==
  CASE f = "literal" -> Literal(output.v)

\* The f of transformOutput.
TransformFunction(f, output) ==
  CASE f = "onlyA" ->
         IF output = Str(<<"a">>)
         THEN makeRight(output)
         ELSE makeLeft([input |-> output.v, message |-> "output was not a"])

\* The parser a thunk handed to lazy returns.
Thunk(thunk) ==
  CASE thunk = "a" -> Literal(<<"a">>)
    [] thunk = "nested" ->
         OneOf(<<Sequence(<<Literal(<<"a">>), Lazy("nested")>>), Literal(<<"b">>)>>)

---------------------------------------------------------------------------
(* constructors.ts *)

Units == Chars \cup {"H", "L"}
CodeUnit(c) ==
  CASE c = "a" -> 97 [] c = "b" -> 98 [] c = "H" -> 55357 [] c = "L" -> 56832
FromCodeUnit(n) == CHOOSE c \in Units : CodeUnit(c) = n

\* input.charCodeAt(0) in the place of codePointAt(0): one code unit.
charCodeAt0(input) == IF input = <<>> THEN -1 ELSE CodeUnit(input[1])

\* input.codePointAt(0); -1 stands for undefined.
codePointAt0(input) ==
  IF input = <<>> THEN -1
  ELSE LET first == CodeUnit(input[1])
       IN IF /\ first >= 55296 /\ first <= 56319
             /\ Len(input) > 1
             /\ CodeUnit(input[2]) >= 56320 /\ CodeUnit(input[2]) <= 57343
          THEN (first - 55296) * 1024 + (CodeUnit(input[2]) - 56320) + 65536
          ELSE first

fromCodePoint(cp) ==
  IF cp >= 65536
  THEN <<FromCodeUnit(((cp - 65536) \div 1024) + 55296),
         FromCodeUnit(((cp - 65536) % 1024) + 56320)>>
  ELSE <<FromCodeUnit(cp)>>

anySingleCharacter(input) ==
  LET firstCodePoint == codePointAt0(input)
  IN IF firstCodePoint = -1
     THEN makeLeft([input |-> input, message |-> "input was empty"])
     ELSE LET firstCharacter == fromCodePoint(firstCodePoint)
          IN makeRight([output |-> Str(firstCharacter),
                        remainingInput |-> slice(input, Len(firstCharacter))])

literal(text, input) ==
  LET errorMessage == "input did not begin with \"" \o Text(text) \o "\""
  IN IF startsWith(input, text)
     THEN makeRight([remainingInput |-> slice(input, Len(text)), output |-> Str(text)])
     ELSE makeLeft([input |-> input, message |-> errorMessage])

nothing(input) == makeRight([remainingInput |-> input, output |-> undefined])

\* regularExpression keeping input.slice(0, match[0].length), the matched text,
\* as remainingInput.
regularExpressionKeepsMatch(anchored, input, li) ==
  With(exec(anchored, input, li), LAMBDA e :
    Ret(IF e.match = NULL
        THEN makeLeft([input |-> input,
                       message |-> "input did not match regular expression"])
        ELSE makeRight([remainingInput |-> SubSeq(input, 1, Len(e.match.m0)),
                        output |-> Str(e.match.m0)]),
        e.lastIndex, <<>>))

regularExpression(anchored, input, li) ==
  With(exec(anchored, input, li), LAMBDA e :
    Ret(IF e.match = NULL
        THEN makeLeft([input |-> input,
                       message |-> "input did not match regular expression"])
        ELSE makeRight([remainingInput |-> slice(input, Len(e.match.m0)),
                        output |-> Str(e.match.m0)]),
        e.lastIndex, <<>>))

---------------------------------------------------------------------------
(* combinators.ts *)

RECURSIVE Run(_, _, _)

as(parser, newOutput, input, li) ==
  With(Run(parser, input, li), LAMBDA r :
    Ret(IF isLeft(r.result) THEN r.result
        ELSE makeRight([output |-> newOutput,
                        remainingInput |-> r.result.value.remainingInput]),
        r.lastIndex, <<Call(parser, input, r.result)>>))

\* butNot with `not` applied to what `parser` left, as lookaheadNot does.
butNotOnRemainingInput(parser, not, notName, input, li) ==
  With(Run(parser, input, li), LAMBDA r :
    IF isLeft(r.result)
    THEN Ret(r.result, r.lastIndex, <<Call(parser, input, r.result)>>)
    ELSE With(Run(not, r.result.value.remainingInput, r.lastIndex), LAMBDA notResult :
           Ret(IF ~isLeft(notResult.result)
               THEN makeLeft([input |-> input,
                              message |-> "input was unexpectedly " \o notName])
               ELSE makeRight(r.result.value),
               notResult.lastIndex,
               <<Call(parser, input, r.result),
                 Call(not, r.result.value.remainingInput, notResult.result)>>)))

butNot(parser, not, notName, input, li) ==
  With(Run(parser, input, li), LAMBDA r :
    IF isLeft(r.result)
    THEN Ret(r.result, r.lastIndex, <<Call(parser, input, r.result)>>)
    ELSE With(Run(not, input, r.lastIndex), LAMBDA notResult :
           Ret(IF ~isLeft(notResult.result)
               THEN makeLeft([input |-> input,
                              message |-> "input was unexpectedly " \o notName])
               ELSE makeRight(r.result.value),
               notResult.lastIndex,
               <<Call(parser, input, r.result), Call(not, input, notResult.result)>>)))

flatMap(parser, f, input, li) ==
  With(Run(parser, input, li), LAMBDA r :
    IF isLeft(r.result)
    THEN Ret(r.result, r.lastIndex, <<Call(parser, input, r.result)>>)
    ELSE With(FlatMapFunction(f, r.result.value.output), LAMBDA nextParser :
           With(Run(nextParser, r.result.value.remainingInput, r.lastIndex), LAMBDA n :
             Ret(n.result, n.lastIndex,
                 <<Call(parser, input, r.result),
                   Call(nextParser, r.result.value.remainingInput, n.result)>>))))

lazy(thunk, input, li) ==
  With(Run(Thunk(thunk), input, li), LAMBDA r :
    Ret(r.result, r.lastIndex, <<Call(Thunk(thunk), input, r.result)>>))

\* lookaheadNot with notFollowedBy applied to the original input, as butNot does.
lookaheadNotOnOriginalInput(parser, notFollowedBy, followedByName, input, li) ==
  With(Run(parser, input, li), LAMBDA r :
    IF isLeft(r.result)
    THEN Ret(r.result, r.lastIndex, <<Call(parser, input, r.result)>>)
    ELSE With(Run(notFollowedBy, input, r.lastIndex), LAMBDA n :
           Ret(IF isLeft(n.result)
               THEN makeRight(r.result.value)
               ELSE makeLeft([input |-> input,
                              message |-> "input was unexpectedly followed by "
                                            \o followedByName]),
               n.lastIndex,
               <<Call(parser, input, r.result), Call(notFollowedBy, input, n.result)>>)))

lookaheadNot(parser, notFollowedBy, followedByName, input, li) ==
  With(Run(parser, input, li), LAMBDA r :
    IF isLeft(r.result)
    THEN Ret(r.result, r.lastIndex, <<Call(parser, input, r.result)>>)
    ELSE With(Run(notFollowedBy, r.result.value.remainingInput, r.lastIndex), LAMBDA n :
           Ret(IF isLeft(n.result)
               THEN makeRight(r.result.value)
               ELSE makeLeft([input |-> input,
                              message |-> "input was unexpectedly followed by "
                                            \o followedByName]),
               n.lastIndex,
               <<Call(parser, input, r.result),
                 Call(notFollowedBy, r.result.value.remainingInput, n.result)>>)))

map(parser, f, input, li) ==
  With(Run(parser, input, li), LAMBDA r :
    Ret(IF isLeft(r.result) THEN r.result
        ELSE makeRight([output |-> MapFunction(f, r.result.value.output),
                        remainingInput |-> r.result.value.remainingInput]),
        r.lastIndex, <<Call(parser, input, r.result)>>))

\* The callback of oneOf without the short circuit on a Success.
oneOfCallbackAlwaysApplies(acc, parser, input) ==
  With(Run(parser, input, acc.lastIndex), LAMBDA r :
    Ret(r.result, r.lastIndex, Append(acc.calls, Call(parser, input, r.result))))

\* The callback oneOf folds over its parsers.
oneOfCallback(acc, parser, input) ==
  IF isLeft(acc.result)
  THEN With(Run(parser, input, acc.lastIndex), LAMBDA r :
         Ret(r.result, r.lastIndex, Append(acc.calls, Call(parser, input, r.result))))
  ELSE Ret(makeRight(acc.result.value), acc.lastIndex, acc.calls)

RECURSIVE oneOfReduce(_, _, _, _)
oneOfReduce(parsers, k, acc, input) ==
  IF k > Len(parsers) THEN acc
  ELSE With(oneOfCallback(acc, parsers[k], input), LAMBDA next :
         oneOfReduce(parsers, k + 1, next, input))

oneOf(parsers, input, li) ==
  With(Ret(makeLeft([input |-> input, message |-> ""]), li, <<>>), LAMBDA initial :
    oneOfReduce(parsers, 1, initial, input))

\* The callback of sequence with the new output put in front of the earlier ones.
sequenceCallbackPrepends(acc, parser) ==
  IF isLeft(acc.result)
  THEN Ret(makeLeft(acc.result.value), acc.lastIndex, acc.calls)
  ELSE With(Run(parser, acc.result.value.remainingInput, acc.lastIndex), LAMBDA r :
         Ret(IF isLeft(r.result) THEN r.result
             ELSE makeRight([remainingInput |-> r.result.value.remainingInput,
                             output |-> Arr(<<r.result.value.output>>
                                              \o acc.result.value.output.v)]),
             r.lastIndex,
             Append(acc.calls, Call(parser, acc.result.value.remainingInput, r.result))))

\* The callback sequence folds over its parsers.
sequenceCallback(acc, parser) ==
  IF isLeft(acc.result)
  THEN Ret(makeLeft(acc.result.value), acc.lastIndex, acc.calls)
  ELSE With(Run(parser, acc.result.value.remainingInput, acc.lastIndex), LAMBDA r :
         Ret(IF isLeft(r.result) THEN r.result
             ELSE makeRight([remainingInput |-> r.result.value.remainingInput,
                             output |-> Arr(Append(acc.result.value.output.v,
                                                   r.result.value.output))]),
             r.lastIndex,
             Append(acc.calls, Call(parser, acc.result.value.remainingInput, r.result))))

RECURSIVE sequenceReduce(_, _, _)
sequenceReduce(parsers, k, acc) ==
  IF k > Len(parsers) THEN acc
  ELSE With(sequenceCallback(acc, parsers[k]), LAMBDA next :
         sequenceReduce(parsers, k + 1, next))

sequence(parsers, input, li) ==
  With(Ret(makeRight([remainingInput |-> input, output |-> Arr(<<>>)]), li, <<>>),
       LAMBDA initial :
    With(sequenceReduce(parsers, 1, initial), LAMBDA r :
      Ret(IF isLeft(r.result) THEN r.result
          ELSE makeRight([output |-> r.result.value.output,
                          remainingInput |-> r.result.value.remainingInput]),
          r.lastIndex, r.calls)))

transformOutput(parser, f, input, li) ==
  With(Run(parser, input, li), LAMBDA r :
    Ret(IF isLeft(r.result) THEN r.result
        ELSE With(TransformFunction(f, r.result.value.output), LAMBDA t :
               IF isLeft(t) THEN t
               ELSE makeRight([output |-> t.value,
                               remainingInput |-> r.result.value.remainingInput])),
        r.lastIndex, <<Call(parser, input, r.result)>>))

\* zeroOrMore returning what it has as soon as a Success consumed nothing.
zeroOrMoreMatchStopsWithoutProgress(result, input) ==
  IF isLeft(result) \/ result.value.output = undefined
        \/ result.value.remainingInput = input
  THEN [do |-> "return",
        success |-> [output |-> Arr(<<>>), remainingInput |-> input]]
  ELSE [do |-> "recurse", lastSuccess |-> result.value]

\* What zeroOrMore does with the result of oneOf([parser, nothing]) before it
\* recurses: "return" with a Success, or "recurse" on lastSuccess.remainingInput.
zeroOrMoreMatch(result, input) ==
  IF isLeft(result)
  THEN [do |-> "return",
        success |-> [output |-> Arr(<<>>), remainingInput |-> input]]
  ELSE IF result.value.output = undefined
  THEN [do |-> "return",
        success |-> [output |-> Arr(<<>>),
                     remainingInput |-> result.value.remainingInput]]
  ELSE [do |-> "recurse", lastSuccess |-> result.value]

\* The Success zeroOrMore builds from lastSuccess and the recursive call's result.
zeroOrMoreCons(lastSuccess, nextResult) ==
  [output |-> Arr(<<lastSuccess.output>> \o nextResult.value.output.v),
   remainingInput |-> nextResult.value.remainingInput]

\* zeroOrMore returning a Failure when nothing matched, as oneOrMore does.
zeroOrMoreReturnFailsOnNone(success) ==
  IF success.output = Arr(<<>>)
  THEN makeLeft([input |-> success.remainingInput, message |-> "no match",
                 output |-> success.output, remainingInput |-> success.remainingInput])
  ELSE makeRight(success)

zeroOrMoreReturn(success) == makeRight(success)

RECURSIVE zeroOrMore(_, _, _)
zeroOrMore(parser, input, li) ==
  With(oneOf(<<parser, Nothing>>, input, li), LAMBDA o :
    With(zeroOrMoreMatch(o.result, input), LAMBDA m :
      IF m.do = "return"
      THEN Ret(zeroOrMoreReturn(m.success), o.lastIndex, <<o.calls[1]>>)
      ELSE With(zeroOrMore(parser, m.lastSuccess.remainingInput, o.lastIndex),
                LAMBDA nextResult :
             Ret(zeroOrMoreReturn(zeroOrMoreCons(m.lastSuccess, nextResult.result)),
                 nextResult.lastIndex, <<o.calls[1]>> \o nextResult.calls))))

Run(p, input, li) ==
  CASE p.kind = "anySingleCharacter" -> Ret(anySingleCharacter(input), li, <<>>)
    [] p.kind = "literal" -> Ret(literal(p.text, input), li, <<>>)
    [] p.kind = "nothing" -> Ret(nothing(input), li, <<>>)
    [] p.kind = "regularExpression" ->
         regularExpression(p.patternAnchoredToStartOfString, input, li)
    [] p.kind = "as" -> as(p.parser, p.newOutput, input, li)
    [] p.kind = "butNot" -> butNot(p.parser, p.not, p.notName, input, li)
    [] p.kind = "flatMap" -> flatMap(p.parser, p.f, input, li)
    [] p.kind = "lazy" -> lazy(p.thunk, input, li)
    [] p.kind = "lookaheadNot" ->
         lookaheadNot(p.parser, p.notFollowedBy, p.followedByName, input, li)
    [] p.kind = "map" -> map(p.parser, p.f, input, li)
    [] p.kind = "oneOf" -> oneOf(p.parsers, input, li)
    [] p.kind = "sequence" -> sequence(p.parsers, input, li)
    [] p.kind = "transformOutput" -> transformOutput(p.parser, p.f, input, li)
    [] p.kind = "zeroOrMore" -> zeroOrMore(p.parser, input, li)

---------------------------------------------------------------------------
(* parser.ts *)

\* parse without the check that the whole input was consumed.
parseIgnoringExcess(parser, input, li) ==
  With(Run(parser, input, li), LAMBDA r :
    Ret(IF isLeft(r.result) THEN r.result ELSE makeRight(r.result.value.output),
        r.lastIndex, <<Call(parser, input, r.result)>>))

parse(parser, input, li) ==
  With(Run(parser, input, li), LAMBDA r :
    Ret(IF isLeft(r.result) THEN r.result
        ELSE IF Len(r.result.value.remainingInput) # 0
        THEN makeLeft([input |-> input,
                       output |-> r.result.value.output,
                       remainingInput |-> r.result.value.remainingInput,
                       message |-> "excess content followed valid input"])
        ELSE makeRight(r.result.value.output),
        r.lastIndex, <<Call(parser, input, r.result)>>))

---------------------------------------------------------------------------
(* The parsers and patterns a caller builds, once, before any input is read *)

litA == Literal(<<"a">>)
litB == Literal(<<"b">>)
litAB == Literal(<<"a", "b">>)
litEmpty == Literal(<<>>)

Patterns ==
  {RegExp(<<"a">>, ""), RegExp(<<"a", "b", "?">>, ""), RegExp(<<"a", "a", "|", "b">>, ""),
   RegExp(<<"^", "a">>, ""), RegExp(<<"a">>, "g"), RegExp(<<"a">>, "y")}

\* The RegExp objects the parsers hold.
RegExps == {patternAnchoredToStartOfString(pattern) : pattern \in Patterns}

\* Parsers whose every Success consumes input or has the output undefined.
Elements ==
  {AnySingleCharacter, litA, litB, litAB, Nothing,
   RegularExpression(RegExp(<<"a">>, "g")), RegularExpression(RegExp(<<"a">>, "y")),
   As(litA, undefined), OneOf(<<litA, litB>>)}

Composites ==
  {As(litA, Str(<<"b">>)), ButNot(AnySingleCharacter, litB, "b"),
   FlatMap(AnySingleCharacter, "literal"), Lazy("a"), Lazy("nested"),
   LookaheadNot(litA, litB, "b"), Map(AnySingleCharacter, "toUpperCase"),
   OneOrMore(litA), Sequence(<<litA, litB>>),
   TransformOutput(AnySingleCharacter, "onlyA"), ZeroOrMore(litA),
   ZeroOrMore(As(litA, undefined))}

Parsers == Elements \cup Composites \cup {litEmpty}

\* Input strings with surrogate code units in them, paired and lone.
Utf16Inputs == UNION {[1..n -> Units] : n \in 0..MaxLen}

\* The parser lists handed to oneOf and sequence.
ParserLists == UNION {[1..n -> {litA, litB}] : n \in 1..MaxParsers}

---------------------------------------------------------------------------
(* The caller: one input string at a time, parsers applied to it *)

VARIABLES
  input,      \* the string the caller holds
  lastIndex,  \* lastIndex of every RegExp object
  pc,         \* "idle", or "zeroOrMore" while a call of zeroOrMore is running
  op,         \* the function the caller called last
  args,       \* its arguments
  calls,      \* the applications of its argument parsers it made, in order
  result,     \* what it returned
  stack       \* the active invocations of zeroOrMore's body, innermost last

vars == <<input, lastIndex, pc, op, args, calls, result, stack>>

NoResult == [tag |-> "none", value |-> <<>>]
RangeError == [tag |-> "thrown", value |-> [name |-> "RangeError"]]

Init ==
  /\ input \in Inputs
  /\ lastIndex = [re \in RegExps |-> 0]
  /\ pc = "idle"
  /\ op = "none"
  /\ args = [input |-> <<>>]
  /\ calls = <<>>
  /\ result = NoResult
  /\ stack = <<>>

\* The caller turns to another input string.
NewInput(I) ==
  /\ pc = "idle"
  /\ I # input
  /\ input' = I
  /\ op' = "none"
  /\ args' = [input |-> <<>>]
  /\ calls' = <<>>
  /\ result' = NoResult
  /\ UNCHANGED <<lastIndex, pc, stack>>

\* A call that runs to completion in one step.
Returns(name, arguments, r) ==
  /\ pc = "idle"
  /\ op' = name
  /\ args' = arguments
  /\ calls' = r.calls
  /\ result' = r.result
  /\ lastIndex' = r.lastIndex
  /\ UNCHANGED <<input, pc, stack>>

\* parser(input)
Apply(P) ==
  Returns("apply", [parser |-> P, input |-> input],
          LET r == Run(P, input, lastIndex)
          IN Ret(r.result, r.lastIndex, <<Call(P, input, r.result)>>))

\* parse(parser, input)
Parse(P) ==
  Returns("parse", [parser |-> P, input |-> input], parse(P, input, lastIndex))

\* anySingleCharacter(input)
ApplyAnySingleCharacter ==
  Returns("anySingleCharacter", [input |-> input],
          Run(AnySingleCharacter, input, lastIndex))

\* regularExpression(pattern)(input)
ApplyRegularExpression(pattern) ==
  Returns("regularExpression", [pattern |-> pattern, input |-> input],
          Run(RegularExpression(pattern), input, lastIndex))

\* butNot(parser, not, notName)(input)
ApplyButNot(P, N, notName) ==
  Returns("butNot", [parser |-> P, not |-> N, notName |-> notName, input |-> input],
          butNot(P, N, notName, input, lastIndex))

\* lookaheadNot(parser, notFollowedBy, followedByName)(input)
ApplyLookaheadNot(P, F, followedByName) ==
  Returns("lookaheadNot",
          [parser |-> P, notFollowedBy |-> F, followedByName |-> followedByName,
           input |-> input],
          lookaheadNot(P, F, followedByName, input, lastIndex))

\* oneOf(parsers)(input)
ApplyOneOf(Ps) ==
  Returns("oneOf", [parsers |-> Ps, input |-> input], oneOf(Ps, input, lastIndex))

\* sequence(parsers)(input)
ApplySequence(Ps) ==
  Returns("sequence", [parsers |-> Ps, input |-> input], sequence(Ps, input, lastIndex))

\* oneOrMore(parser)(input)
ApplyOneOrMore(P) ==
  Returns("oneOrMore", [parser |-> P, input |-> input],
          Run(OneOrMore(P), input, lastIndex))

\* zeroOrMore(parser)(input) is entered: the first invocation of its body.
ZeroOrMoreCall(P) ==
  /\ pc = "idle"
  /\ pc' = "zeroOrMore"
  /\ op' = "zeroOrMore"
  /\ args' = [parser |-> P, input |-> input]
  /\ calls' = <<>>
  /\ result' = NoResult
  /\ stack' = <<[at |-> "body", input |-> input]>>
  /\ UNCHANGED <<input, lastIndex>>

Top == stack[Len(stack)]
ReplaceTop(frames) == SubSeq(stack, 1, Len(stack) - 1) \o frames

\* The innermost invocation runs oneOf([parser, nothing]) on its input and
\* either has its Success or calls zeroOrMore(parser) on the remaining input.
ZeroOrMoreBody ==
  /\ pc = "zeroOrMore"
  /\ Top.at = "body"
  /\ LET o == oneOf(<<args.parser, Nothing>>, Top.input, lastIndex)
         m == zeroOrMoreMatch(o.result, Top.input)
     IN /\ m.do = "recurse" => Len(stack) < MaxDepth
        /\ lastIndex' = o.lastIndex
        /\ calls' = Append(calls, o.calls[1])
        /\ stack' = IF m.do = "return"
                    THEN ReplaceTop(<<[at |-> "return", success |-> m.success]>>)
                    ELSE ReplaceTop(<<[at |-> "await", lastSuccess |-> m.lastSuccess],
                                      [at |-> "body",
                                       input |-> m.lastSuccess.remainingInput]>>)
  /\ UNCHANGED <<input, pc, op, args, result>>

\* The recursive call does not fit on the call stack: the engine throws.
ZeroOrMoreStackOverflow ==
  /\ pc = "zeroOrMore"
  /\ Top.at = "body"
  /\ Len(stack) = MaxDepth
  /\ LET o == oneOf(<<args.parser, Nothing>>, Top.input, lastIndex)
     IN /\ zeroOrMoreMatch(o.result, Top.input).do = "recurse"
        /\ lastIndex' = o.lastIndex
        /\ calls' = Append(calls, o.calls[1])
  /\ stack' = <<>>
  /\ pc' = "idle"
  /\ result' = RangeError
  /\ UNCHANGED <<input, op, args>>

\* The innermost invocation returns to its caller.
ZeroOrMoreReturn ==
  /\ pc = "zeroOrMore"
  /\ Top.at = "return"
  /\ LET nextResult == zeroOrMoreReturn(Top.success)
     IN IF Len(stack) = 1
        THEN /\ result' = nextResult
             /\ pc' = "idle"
             /\ stack' = <<>>
        ELSE /\ stack' = SubSeq(stack, 1, Len(stack) - 2)
                           \o <<[at |-> "return",
                                 success |-> zeroOrMoreCons(stack[Len(stack) - 1].lastSuccess,
                                                            nextResult)]>>
             /\ UNCHANGED <<result, pc>>
  /\ UNCHANGED <<input, lastIndex, op, args, calls>>

Next ==
  \/ \E I \in Inputs : NewInput(I)
  \/ \E P \in Parsers \ {litEmpty} : Apply(P)
  \/ \E P \in Parsers \ {litEmpty} : Parse(P)
  \/ \E pattern \in Patterns : ApplyRegularExpression(pattern)
  \/ \E P \in {AnySingleCharacter, litA, RegularExpression(RegExp(<<"a", "b", "?">>, ""))},
        N \in {litB, litAB, Nothing} : ApplyButNot(P, N, "b")
  \/ \E P \in {AnySingleCharacter, litA, RegularExpression(RegExp(<<"a", "b", "?">>, ""))},
        F \in {litA, litB, Nothing} : ApplyLookaheadNot(P, F, "b")
  \/ \E Ps \in ParserLists : ApplyOneOf(Ps)
  \/ \E Ps \in ParserLists : ApplySequence(Ps)
  \/ \E P \in Elements : ApplyOneOrMore(P)
  \/ \E P \in Elements \cup {litEmpty} : ZeroOrMoreCall(P)
  \/ ZeroOrMoreBody
  \/ ZeroOrMoreStackOverflow
  \/ ZeroOrMoreReturn

Spec == Init /\ [][Next]_vars

\* A caller that applies anySingleCharacter to strings of any code units.
Utf16Init ==
  /\ input \in Utf16Inputs
  /\ lastIndex = [re \in RegExps |-> 0]
  /\ pc = "idle"
  /\ op = "none"
  /\ args = [input |-> <<>>]
  /\ calls = <<>>
  /\ result = NoResult
  /\ stack = <<>>

Utf16Next ==
  \/ \E I \in Utf16Inputs : NewInput(I)
  \/ ApplyAnySingleCharacter

Utf16Spec == Utf16Init /\ [][Utf16Next]_vars

\* A caller that only calls zeroOrMore.  A call runs synchronously: once it is
\* entered, its body, its recursive calls and its returns are executed, with
\* nothing of the caller in between.
ZeroOrMoreNext ==
  \/ \E I \in Inputs : NewInput(I)
  \/ \E P \in Elements \cup {litEmpty} : ZeroOrMoreCall(P)
  \/ ZeroOrMoreBody
  \/ ZeroOrMoreStackOverflow
  \/ ZeroOrMoreReturn

ZeroOrMoreSpec ==
  /\ Init
  /\ [][ZeroOrMoreNext]_vars
  /\ WF_vars(ZeroOrMoreBody)
  /\ WF_vars(ZeroOrMoreStackOverflow)
  /\ WF_vars(ZeroOrMoreReturn)

---------------------------------------------------------------------------
(* Properties *)

\* Parsers that hold a RegExp object with the g or y flag.
Stateful ==
  {P \in Parsers : P.kind = "regularExpression"
                     /\ P.patternAnchoredToStartOfString.flags # ""}

\* C1: parse(P, I) applies P to I once; it returns the bare output of P(I) when
\* P(I) is a Success with empty remainingInput, a Failure with the message
\* "excess content followed valid input" when P(I) is a Success with non-empty
\* remainingInput, and P's own Failure when P(I) is a Failure.
C1_ParseRequiresAllInput ==
  op = "parse" =>
    /\ Len(calls) = 1
    /\ calls[1].parser = args.parser
    /\ calls[1].input = args.input
    /\ args.parser \notin Stateful =>
         calls[1].result = Run(args.parser, args.input, lastIndex).result
    /\ IF calls[1].result.tag = "left"
       THEN result = calls[1].result
       ELSE IF calls[1].result.value.remainingInput = <<>>
       THEN result = [tag |-> "right", value |-> calls[1].result.value.output]
       ELSE /\ result.tag = "left"
            /\ result.value.message = "excess content followed valid input"

\* P succeeded, leaving input, and parse turned it into a Failure.
C1_Witness ==
  /\ op = "parse"
  /\ calls[1].result.tag = "right"
  /\ calls[1].result.value.remainingInput # <<>>
  /\ result.tag = "left"

\* C2: when zeroOrMore(P)(I) returns, P was applied first to I and then to the
\* remainingInput of each previous Success until it failed; the output is the
\* list of the outputs of all those Successes, in order, and remainingInput is
\* the input P failed on.  Stated for every P whose Successes consume input,
\* whatever their output (undefined included).
C2_ZeroOrMoreCollectsEveryMatch ==
  ( /\ op = "zeroOrMore"
    /\ pc = "idle"
    /\ result.tag = "right"
    /\ \A k \in 1..Len(calls) :
         calls[k].result.tag = "right"
           => calls[k].result.value.remainingInput # calls[k].input )
  => /\ Len(calls) >= 1
     /\ calls[1].input = args.input
     /\ \A k \in 1..Len(calls) : calls[k].parser = args.parser
     /\ \A k \in 1..(Len(calls) - 1) :
          /\ calls[k].result.tag = "right"
          /\ calls[k + 1].input = calls[k].result.value.remainingInput
     /\ calls[Len(calls)].result.tag = "left"
     /\ result.value.output
          = Arr([k \in 1..(Len(calls) - 1) |-> calls[k].result.value.output])
     /\ result.value.remainingInput = calls[Len(calls)].input

\* C3: zeroOrMore(P)(I) never returns a Failure: whenever it returns, the result
\* is a Success, and when P fails on I that Success has the output [] and the
\* remainingInput I.  (A RangeError is thrown, not returned.)
C3_ZeroOrMoreNeverFails ==
  /\ (op = "zeroOrMore" /\ pc = "idle" /\ result # RangeError) =>
       /\ result.tag = "right"
       /\ calls[1].parser = args.parser
       /\ calls[1].input = args.input
       /\ calls[1].result.tag = "left" =>
            result.value = [output |-> Arr(<<>>), remainingInput |-> args.input]
  /\ (op = "apply" /\ args.parser.kind = "zeroOrMore") => result.tag = "right"

\* zeroOrMore returned after P failed on the very first application.
C3_Witness ==
  /\ op = "zeroOrMore"
  /\ pc = "idle"
  /\ Len(calls) = 1
  /\ calls[1].result.tag = "left"
  /\ result.tag = "right"
  /\ args.input # <<>>

\* C4: zeroOrMore is iterative: the number of active invocations of its body
\* does not grow with the number of matches.
C4_ZeroOrMoreIsIterative == Len(stack) <= 1

\* C5: oneOf(Ps)(I) applies the parsers of Ps in list order, each to I itself,
\* stops at the first Success and returns it; when every parser fails it
\* returns the Failure of the last one.
C5_OneOfFirstSuccessOrLastFailure ==
  op = "oneOf" =>
    /\ Len(calls) >= 1
    /\ Len(calls) <= Len(args.parsers)
    /\ \A k \in 1..Len(calls) :
         /\ calls[k].parser = args.parsers[k]
         /\ calls[k].input = args.input
         /\ calls[k].result = Run(args.parsers[k], args.input, lastIndex).result
    /\ \A k \in 1..(Len(calls) - 1) : calls[k].result.tag = "left"
    /\ calls[Len(calls)].result.tag = "left" => Len(calls) = Len(args.parsers)
    /\ result = calls[Len(calls)].result

\* A parser in the middle of the list succeeded and the ones after it were
\* not applied.
C5_Witness ==
  /\ op = "oneOf"
  /\ Len(calls) = 2
  /\ Len(args.parsers) = 3
  /\ calls[1].result.tag = "left"
  /\ result.tag = "right"

\* C6: sequence([P1..Pn])(I) applies P1 to I and each next parser to the
\* remainingInput of the Success before it; when all succeed the output is the
\* list of their outputs in order and remainingInput is the last one's; when
\* one fails the result is its Failure and no later parser is applied.
C6_SequenceThreadsRemainingInput ==
  op = "sequence" =>
    /\ Len(calls) >= 1
    /\ Len(calls) <= Len(args.parsers)
    /\ calls[1].input = args.input
    /\ \A k \in 1..Len(calls) :
         /\ calls[k].parser = args.parsers[k]
         /\ calls[k].result = Run(args.parsers[k], calls[k].input, lastIndex).result
    /\ \A k \in 1..(Len(calls) - 1) :
         /\ calls[k].result.tag = "right"
         /\ calls[k + 1].input = calls[k].result.value.remainingInput
    /\ IF calls[Len(calls)].result.tag = "left"
       THEN result = calls[Len(calls)].result
       ELSE /\ Len(calls) = Len(args.parsers)
            /\ result.tag = "right"
            /\ result.value.output
                 = Arr([k \in 1..Len(calls) |-> calls[k].result.value.output])
            /\ result.value.remainingInput
                 = calls[Len(calls)].result.value.remainingInput

\* Two different parsers succeeded one after the other.
C6_Witness ==
  /\ op = "sequence"
  /\ result.tag = "right"
  /\ Len(calls) >= 2
  /\ calls[1].parser # calls[2].parser
  /\ result.value.remainingInput # <<>>

\* The applications of P from I on, each to what the previous Success left,
\* up to the first Failure: the outputs of the Successes, the input P failed
\* on and that Failure.  ends is FALSE when a Success consumed nothing, so that
\* the repetition never ends.
RECURSIVE Repetition(_, _, _)
Repetition(P, I, li) ==
  With(Run(P, I, li), LAMBDA r :
    IF r.result.tag = "left"
    THEN [ends |-> TRUE, outputs |-> <<>>, remainingInput |-> I, failure |-> r.result]
    ELSE IF r.result.value.remainingInput = I
    THEN [ends |-> FALSE, outputs |-> <<>>, remainingInput |-> I, failure |-> r.result]
    ELSE With(Repetition(P, r.result.value.remainingInput, r.lastIndex), LAMBDA rest :
           [ends |-> rest.ends, outputs |-> <<r.result.value.output>> \o rest.outputs,
            remainingInput |-> rest.remainingInput, failure |-> rest.failure]))

\* C7: oneOrMore(P)(I) is P's Failure when P fails on I; otherwise it is a
\* Success whose output is the list of the outputs of all consecutive
\* successful applications of P from I on and whose remainingInput is the
\* input P first failed on.
C7_OneOrMoreCollectsEveryMatch ==
  (op = "oneOrMore" /\ args.parser \notin Stateful) =>
    LET rep == Repetition(args.parser, args.input, lastIndex)
    IN rep.ends =>
         IF rep.outputs = <<>>
         THEN result = rep.failure
         ELSE result = [tag |-> "right",
                        value |-> [output |-> Arr(rep.outputs),
                                   remainingInput |-> rep.remainingInput]]

\* C8: regularExpression(pattern)(I) succeeds only when pattern matches at
\* index 0 of I; the output is then that matched prefix and output followed by
\* remainingInput is I.
C8_RegularExpressionMatchesAtStart ==
  (op = "regularExpression" /\ result.tag = "right") =>
    LET end == MatchAlternatives(Alternatives(args.pattern.source), 1, args.input, 0)
    IN /\ end # -1
       /\ result.value.output = Str(SubSeq(args.input, 1, end))
       /\ result.value.output.v \o result.value.remainingInput = args.input

\* C9: applying the same parser to the same input again returns an equal
\* result.
C9_ParsersArePure ==
  [][(op = "apply" /\ op' = "apply" /\ args' = args) => result' = result]_vars

\* C10: butNot(P, N, name)(I) returns P's Failure when P fails on I; otherwise
\* it applies N to I itself and returns a Failure with input I and the message
\* "input was unexpectedly {name}" when N succeeds, P's Success when N fails.
C10_ButNotAppliesNotToOriginalInput ==
  op = "butNot" =>
    /\ calls[1] = Call(args.parser, args.input,
                       Run(args.parser, args.input, lastIndex).result)
    /\ IF calls[1].result.tag = "left"
       THEN /\ Len(calls) = 1
            /\ result = calls[1].result
       ELSE /\ Len(calls) = 2
            /\ calls[2] = Call(args.not, args.input,
                               Run(args.not, args.input, lastIndex).result)
            /\ IF calls[2].result.tag = "right"
               THEN result = [tag |-> "left",
                              value |-> [input |-> args.input,
                                         message |-> "input was unexpectedly "
                                                       \o args.notName]]
               ELSE result = calls[1].result

\* P consumed input, N succeeded on the original input and butNot failed.
C10_Witness ==
  /\ op = "butNot"
  /\ Len(calls) = 2
  /\ calls[1].result.value.remainingInput # args.input
  /\ calls[2].result.tag = "right"
  /\ result.tag = "left"

\* C11: lookaheadNot(P, F, name)(I) returns P's Failure when P fails on I;
\* otherwise it applies F to the remainingInput R of P's Success, not to I, and
\* returns a Failure with the message "input was unexpectedly followed by
\* {name}" when F succeeds on R, P's own Success (remainingInput R) when F fails.
C11_LookaheadNotAppliesToRemainingInput ==
  op = "lookaheadNot" =>
    /\ calls[1] = Call(args.parser, args.input,
                       Run(args.parser, args.input, lastIndex).result)
    /\ IF calls[1].result.tag = "left"
       THEN /\ Len(calls) = 1
            /\ result = calls[1].result
       ELSE LET R == calls[1].result.value.remainingInput
            IN /\ Len(calls) = 2
               /\ calls[2] = Call(args.notFollowedBy, R,
                                  Run(args.notFollowedBy, R, lastIndex).result)
               /\ IF calls[2].result.tag = "right"
                  THEN /\ result.tag = "left"
                       /\ result.value.message
                            = "input was unexpectedly followed by " \o args.followedByName
                  ELSE /\ result = calls[1].result
                       /\ result.value.remainingInput = R

\* P consumed input, F fails on the original input but succeeds on what P
\* left, and lookaheadNot failed.
C11_Witness ==
  /\ op = "lookaheadNot"
  /\ Len(calls) = 2
  /\ calls[2].input # args.input
  /\ calls[2].result.tag = "right"
  /\ Run(args.notFollowedBy, args.input, lastIndex).result.tag = "left"
  /\ result.tag = "left"

\* UTF-16 code units D800..DBFF and DC00..DFFF.
IsHighSurrogate(c) == CodeUnit(c) >= 55296 /\ CodeUnit(c) <= 56319
IsLowSurrogate(c) == CodeUnit(c) >= 56320 /\ CodeUnit(c) <= 57343

\* C12: anySingleCharacter(I) fails, with the message "input was empty", iff I
\* is empty; otherwise it succeeds and its output is the first code point of I:
\* the first two code units when I begins with a high surrogate followed by a
\* low surrogate, the first code unit otherwise; output followed by
\* remainingInput is I.
C12_AnySingleCharacterTakesOneCodePoint ==
  op = "anySingleCharacter" =>
    LET I == args.input
    IN IF I = <<>>
       THEN /\ result.tag = "left"
            /\ result.value.message = "input was empty"
       ELSE /\ result.tag = "right"
            /\ result.value.output.t = "string"
            /\ Len(result.value.output.v)
                 = IF Len(I) >= 2 /\ IsHighSurrogate(I[1]) /\ IsLowSurrogate(I[2])
                   THEN 2 ELSE 1
            /\ result.value.output.v \o result.value.remainingInput = I

\* The input began with a surrogate pair and both code units were consumed.
C12_Witness ==
  /\ op = "anySingleCharacter"
  /\ Len(args.input) = 3
  /\ IsHighSurrogate(args.input[1])
  /\ IsLowSurrogate(args.input[2])
  /\ result.tag = "right"
  /\ Len(result.value.output.v) = 2
  /\ Len(result.value.remainingInput) = 1

IsSuffix(s, I) ==
  /\ Len(s) <= Len(I)
  /\ SubSeq(I, Len(I) - Len(s) + 1, Len(I)) = s

\* C13: whenever a parser built from the constructors and combinators returns
\* a Success, its remainingInput is a suffix of the input it was given; this
\* holds of the parser the caller applied and of every argument parser a
\* combinator applied on the way.
C13_RemainingInputIsSuffix ==
  /\ (op \notin {"none", "parse"} /\ result.tag = "right") =>
       IsSuffix(result.value.remainingInput, args.input)
  /\ \A k \in 1..Len(calls) :
       calls[k].result.tag = "right" =>
         IsSuffix(calls[k].result.value.remainingInput, calls[k].input)

\* flatMap succeeded after both its parsers consumed input and left some.
C13_Witness ==
  /\ op = "apply"
  /\ args.parser.kind = "flatMap"
  /\ result.tag = "right"
  /\ result.value.remainingInput # <<>>
  /\ Len(result.value.remainingInput) = Len(args.input) - 2

\* The RegExp states a parser can find: every lastIndex from 0 to MaxLen.
LastIndexes == {[re \in RegExps |-> n] : n \in 0..MaxLen}

\* Parsers whose every Success has a remainingInput strictly shorter than the
\* input.
ConsumingParsers ==
  {P \in Elements \cup {litEmpty} :
     \A I \in Inputs, li \in LastIndexes :
       With(Run(P, I, li).result, LAMBDA r :
         r.tag = "right" => Len(r.value.remainingInput) < Len(I))}

\* Parsers that succeed without consuming input, with an output other than
\* undefined.
StallingParsers ==
  {P \in Elements \cup {litEmpty} :
     \A I \in Inputs, li \in LastIndexes :
       With(Run(P, I, li).result, LAMBDA r :
         /\ r.tag = "right"
         /\ r.value.remainingInput = I
         /\ r.value.output # undefined)}

Successes == {k \in 1..Len(calls) : calls[k].result.tag = "right"}
Failures == {k \in 1..Len(calls) : calls[k].result.tag = "left"}

\* While and after zeroOrMore(P)(I) runs with a consuming P: at most
\* length(I) successful applications of P and one failing one, and a returned
\* output of at most length(I) elements.
ZeroOrMoreIsBounded ==
  (op = "zeroOrMore" /\ args.parser \in ConsumingParsers) =>
    /\ Cardinality(Successes) <= Len(args.input)
    /\ Cardinality(Failures) <= 1
    /\ Failures # {} => Failures = {Len(calls)}
    /\ result.tag = "right" => Len(result.value.output.v) <= Len(args.input)
    /\ result = RangeError => MaxDepth <= Len(args.input)

\* zeroOrMore(P)(I) with a stalling P returns no result: it ends in the
\* RangeError of a call stack that is full.
ZeroOrMoreStalls ==
  (op = "zeroOrMore" /\ args.parser \in StallingParsers) =>
    /\ result.tag # "right"
    /\ Failures = {}
    /\ pc = "idle" => result = RangeError

====
